---- MODULE Spec2Model ----
(***************************************************************************)
(* Sticky-notes backend: an express + ws server over a mongoose model.     *)
(* The repository holds two behaviourally different versions of the        *)
(* server: src/server.js (no validateNote middleware, no heartbeat) and    *)
(* src/unnamed/part_000 (validateNote middleware and a 30 s heartbeat;     *)
(* src/unnamed/part_001 has the same handlers as part_000).  The variable  *)
(* `variant` fixes which of them is running.                               *)
(*                                                                         *)
(* Node runs every callback to completion, so an action is one callback    *)
(* up to its next await: the POST handler up to `await newNote.save()`,    *)
(* the store's answer to the save, and the handler's continuation (the     *)
(* broadcast loop and the response, or the catch block).                   *)
(***************************************************************************)
EXTENDS Integers, Sequences, FiniteSets, TLC

\* ------------------------------------------------------------- bounds
NumReq == 2        \* POST requests issued in a behaviour
NumConn == 2       \* WebSocket connections opened in a behaviour
MaxTime == 1       \* Date.now() ranges over 0..MaxTime

\* ------------------------------------------------- program constants
MESSAGE_MAX_LENGTH == 500
ListLimit == 1000
DuplicateKey == 11000

Variants == {"server.js", "part_000"}
ReqIds == 1..NumReq
ConnIds == 1..NumConn

\* ------------------------------------------------------ JS values
\* A request-body field is a JS value: its typeof, its content and, for a
\* string, its length (long strings are kept by length, not by content).
Undefined == [type |-> "undefined", val |-> "", length |-> 0]
Str(s) == [type |-> "string", val |-> s, length |-> Len(s)]
StrOfLength(s, n) == [type |-> "string", val |-> s, length |-> n]
Num(s) == [type |-> "number", val |-> s, length |-> 0]
Obj == [type |-> "object", val |-> "{}", length |-> 0]
CastError == [type |-> "CastError", val |-> "", length |-> 0]

\* !v of JavaScript
Falsy(v) ==
  \/ v.type = "undefined"
  \/ v.type = "string" /\ v.length = 0
  \/ v.type = "number" /\ v.val = "0"

\* v.length > n of JavaScript: undefined > n is false
LengthExceeds(v, n) == v.type = "string" /\ v.length > n

ALLOWED_COLORS == {Str("pink"), Str("purple"), Str("blue"), Str("green"), Str("yellow")}

\* ------------------------------------------------- request inputs
\* Well-formed bodies (two messages under one signature, a second signature,
\* the colour given and left out), and bodies that depart from a well-formed
\* one in one field: a field that is missing, not a string, too long, or a
\* colour outside the palette.
BaseBody == [message |-> Str("hi"), signature |-> Str("sig1"),
             walletAddress |-> Str("0xabc"), color |-> Undefined]
GoodBodies ==
  {BaseBody,
   [BaseBody EXCEPT !.message = StrOfLength("max", MESSAGE_MAX_LENGTH), !.color = Str("pink")],
   [BaseBody EXCEPT !.signature = Str("sig2"), !.color = Str("pink")]}
BadBodies ==
  {[BaseBody EXCEPT !.message = Undefined],
   [BaseBody EXCEPT !.message = Num("42")],
   [BaseBody EXCEPT !.message = StrOfLength("long", MESSAGE_MAX_LENGTH + 1)],
   [BaseBody EXCEPT !.walletAddress = Obj],
   [BaseBody EXCEPT !.color = Str("red")]}
Bodies == GoodBodies \cup BadBodies

\* db: the promise of mongoose.connect: "connecting" while it is pending,
\* "connected" once it has resolved, "failed" once it has rejected and the
\* catch has called process.exit(1).
VARIABLES db, variant, now, store, req, clients, getRes
vars == <<db, variant, now, store, req, clients, getRes>>

\* ------------------------------------------------ stickyNoteSchema
\* mongoose's cast of a value set on a String path: a string is kept, a
\* number becomes its decimal text, undefined stays unset, a plain object
\* cannot be cast (recorded on the document, reported by validation).
CastString(v) ==
  CASE v.type = "string" -> v
    [] v.type = "number" -> Str(v.val)
    [] v.type = "undefined" -> Undefined
    [] OTHER -> CastError

\* Mutant: the document is built without the colour of the body.
NewStickyNoteIgnoresColor(body, t) ==
  [message |-> CastString(body.message),
   signature |-> CastString(body.signature),
   walletAddress |-> CastString(body.walletAddress),
   color |-> Str("yellow"),
   timestamp |-> t]

\* new StickyNote({message, signature, walletAddress, color: color || 'yellow'}):
\* the paths are cast and the timestamp default (Date.now) is taken as the
\* document is constructed, before save() is called.
NewStickyNote(body, t) ==
  [message |-> CastString(body.message),
   signature |-> CastString(body.signature),
   walletAddress |-> CastString(body.walletAddress),
   color |-> CastString(IF Falsy(body.color) THEN Str("yellow") ELSE body.color),
   timestamp |-> t]

\* `required: true` on a String path: set, cast and not the empty string
Required(v) == v.type = "string" /\ v.length > 0

\* Mutant: the schema declares no validators.
SchemaValidNothing(doc) == TRUE

\* the validation save() runs before it writes
SchemaValid(doc) ==
  /\ Required(doc.message)
  /\ doc.message.length <= MESSAGE_MAX_LENGTH
  /\ Required(doc.signature)
  /\ Required(doc.walletAddress)
  /\ doc.color \in ALLOWED_COLORS

\* Mutant: the collection has no unique index.
SignatureTakenNoIndex(sig) == FALSE

\* the unique index on signature
SignatureTaken(sig) == \E i \in 1..Len(store) : store[i].signature = sig

\* JSON.stringify(doc) / res.json(doc): the text of the fields and the
\* timestamp; the typeof and length bookkeeping of the model are not in it
ToJSON(doc) ==
  [message |-> doc.message.val,
   signature |-> doc.signature.val,
   walletAddress |-> doc.walletAddress.val,
   color |-> doc.color.val,
   timestamp |-> doc.timestamp]

\* ----------------------------------------------------- validateNote
\* The middleware's answer: "next" or the error text of its 400.
validateNote(body) ==
  IF Falsy(body.message) \/ Falsy(body.signature) \/ Falsy(body.walletAddress)
    THEN "Missing required fields"
  ELSE IF LengthExceeds(body.message, MESSAGE_MAX_LENGTH)
    THEN "Message too long"
  ELSE IF body.message.type # "string" \/ body.signature.type # "string"
          \/ body.walletAddress.type # "string"
    THEN "Invalid data types"
  ELSE IF ~Falsy(body.color) /\ body.color \notin ALLOWED_COLORS
    THEN "Invalid color selection"
  ELSE "next"

\* server.js has no middleware: the handler checks the three fields itself
MissingRequiredFields(body) ==
  IF Falsy(body.message) \/ Falsy(body.signature) \/ Falsy(body.walletAddress)
    THEN "Missing required fields"
  ELSE "next"

\* What stands between the request and `new StickyNote` in each version
PreCheck(body) ==
  IF variant = "part_000" THEN validateNote(body) ELSE MissingRequiredFields(body)

\* ------------------------------------------------------------ state
NoNote == [message |-> Undefined, signature |-> Undefined,
           walletAddress |-> Undefined, color |-> Undefined, timestamp |-> 0]
NoBody == [message |-> Undefined, signature |-> Undefined,
           walletAddress |-> Undefined, color |-> Undefined]
NoRes == [status |-> 0, error |-> "", note |-> ToJSON(NoNote)]

\* pc: "idle" not yet received; "saving" awaiting newNote.save(); "saved" the
\* store has written the note and the promise is about to resolve; "rejected"
\* the save failed with `code` and the promise is about to reject; "done".
\* `before` is bookkeeping for the ordering property: the signatures that were
\* in the store when the handler began (kept for the requests that broadcast).
\* newNote and code are the handler's locals: they are gone when it is done.
IdleReq == [pc |-> "idle", body |-> NoBody, newNote |-> NoNote, code |-> 0,
            res |-> NoRes, before |-> {}]

\* readyState: "NONE" before the upgrade, then the ws constants.  tracked:
\* membership in wss.clients.  sent: the payloads handed to client.send.
\* broken: the transport has failed and a send on it fails, but the socket's
\* 'error' and 'close' events have not been handled yet.  errors: the
\* 'error' events of failed sends, which ws.on('error') logs.  unanswered:
\* pings sent since the last pong (bookkeeping for the heartbeat properties).
NoClient == [readyState |-> "NONE", tracked |-> FALSE, isAlive |-> FALSE,
             sent |-> <<>>, unanswered |-> 0, broken |-> FALSE, errors |-> 0]

NoGet == [status |-> 0, notes |-> <<>>]

Init ==
  /\ db = "connecting"
  /\ variant \in Variants
  /\ now = 0
  /\ store = <<>>
  /\ req = [r \in ReqIds |-> IdleReq]
  /\ clients = [c \in ConnIds |-> NoClient]
  /\ getRes = NoGet

\* -------------------------------------------------------- start-up
\* server.listen() is called as the module is loaded, while the promise of
\* mongoose.connect is still pending: the handlers below run from the first
\* state on.  The process runs until the catch of that promise exits it.
Running == db # "failed"

\* .then(() => console.log('MongoDB connected successfully'))
MongoConnected ==
  /\ db = "connecting"
  /\ db' = "connected"
  /\ UNCHANGED <<variant, now, store, req, clients, getRes>>

\* .catch((error) => { console.error(...); process.exit(1); })
MongoConnectionError ==
  /\ db = "connecting"
  /\ db' = "failed"
  /\ UNCHANGED <<variant, now, store, req, clients, getRes>>

\* ------------------------------------------------ POST /api/sticky-notes
\* Requests and connections are taken in the order of their ids (the ids
\* only name them).
Started(r) == req[r].pc # "idle"
NextRequest(r) == ~Started(r) /\ (IF r = 1 THEN TRUE ELSE Started(r - 1))
StoredSignatures == {store[i].signature : i \in 1..Len(store)}

\* The handler up to `await newNote.save()`: the pre-check answers 400 at
\* once, otherwise the document is constructed, with Date.now() reading t,
\* and the save is under way.
Received(body, t) ==
  IF PreCheck(body) # "next"
    THEN [IdleReq EXCEPT !.pc = "done", !.body = body,
                         !.res = [NoRes EXCEPT !.status = 400, !.error = PreCheck(body)]]
    ELSE [IdleReq EXCEPT !.pc = "saving", !.body = body,
                         !.newNote = NewStickyNote(body, t),
                         !.before = StoredSignatures]

\* Date.now() is read only as a document is constructed; `now` is its last
\* reading and the next reading is not earlier.
Clock == now..(IF now < MaxTime THEN now + 1 ELSE now)

Post(r, body) ==
  /\ Running
  /\ NextRequest(r)
  /\ \E t \in Clock :
       /\ req' = [req EXCEPT ![r] = Received(body, t)]
       /\ now' = IF PreCheck(body) # "next" THEN now ELSE t
  /\ UNCHANGED <<db, variant, store, clients, getRes>>

\* The answer of newNote.save(), as the store decides it: "ValidationError"
\* from the schema, "duplicate" from the unique index, otherwise "written".
SaveOutcome(doc) ==
  IF ~SchemaValid(doc) THEN "ValidationError"
  ELSE IF SignatureTaken(doc.signature) THEN "duplicate"
  ELSE "written"

\* save() writes the document: the promise will resolve.
SaveWrites(r) ==
  /\ db = "connected"
  /\ req[r].pc = "saving"
  /\ SaveOutcome(req[r].newNote) = "written"
  /\ store' = Append(store, req[r].newNote)
  /\ req' = [req EXCEPT ![r].pc = "saved"]
  /\ UNCHANGED <<db, variant, now, clients, getRes>>

\* Mutant: the save is an upsert keyed by signature.
SaveDuplicateUpserts(r) ==
  /\ db = "connected"
  /\ req[r].pc = "saving"
  /\ SaveOutcome(req[r].newNote) = "duplicate"
  /\ store' = [i \in 1..Len(store) |->
                 IF store[i].signature = req[r].newNote.signature
                   THEN req[r].newNote ELSE store[i]]
  /\ req' = [req EXCEPT ![r].pc = "saved"]
  /\ UNCHANGED <<db, variant, now, clients, getRes>>

\* save() hits the unique index: the promise will reject with code 11000.
SaveDuplicate(r) ==
  /\ db = "connected"
  /\ req[r].pc = "saving"
  /\ SaveOutcome(req[r].newNote) = "duplicate"
  /\ req' = [req EXCEPT ![r].pc = "rejected", ![r].code = DuplicateKey]
  /\ UNCHANGED <<db, variant, now, store, clients, getRes>>

\* save() fails the schema validation: the promise will reject, no code.
SaveInvalid(r) ==
  /\ Running
  /\ req[r].pc = "saving"
  /\ SaveOutcome(req[r].newNote) = "ValidationError"
  /\ req' = [req EXCEPT ![r].pc = "rejected", ![r].code = 0]
  /\ UNCHANGED <<db, variant, now, store, clients, getRes>>

\* The store cannot be reached: the promise will reject, no code.
SaveUnavailable(r) ==
  /\ Running
  /\ req[r].pc = "saving"
  /\ req' = [req EXCEPT ![r].pc = "rejected", ![r].code = 0]
  /\ UNCHANGED <<db, variant, now, store, clients, getRes>>

\* Mutant: a failing send throws out of the forEach callback, so the clients
\* after it in wss.clients (insertion order) are not reached.
BroadcastStopsAtFailure(data) ==
  LET failing == {c \in ConnIds : clients[c].tracked /\ clients[c].readyState = "OPEN"
                                   /\ clients[c].broken}
      reached(c) == \A f \in failing : c <= f
  IN  [c \in ConnIds |->
         IF clients[c].tracked /\ clients[c].readyState = "OPEN" /\ reached(c)
           THEN [clients[c] EXCEPT !.sent = Append(@, data),
                                   !.errors = IF clients[c].broken THEN @ + 1 ELSE @]
           ELSE clients[c]]

\* Mutant: the loop tests the heartbeat flag instead of readyState.
BroadcastToAlive(data) ==
  [c \in ConnIds |->
     IF clients[c].tracked /\ clients[c].isAlive
       THEN [clients[c] EXCEPT !.sent = Append(@, data)]
       ELSE clients[c]]

\* wss.clients.forEach(client => { if (client.readyState === OPEN)
\* client.send(data) }): the loop runs in one callback.  A send on a broken
\* transport fails; ws reports that through the socket's 'error' event
\* (which every version handles by logging), not by throwing out of send, so
\* the loop goes on to the next client.
Broadcast(data) ==
  [c \in ConnIds |->
     IF clients[c].tracked /\ clients[c].readyState = "OPEN"
       THEN [clients[c] EXCEPT !.sent = Append(@, data),
                               !.errors = IF clients[c].broken THEN @ + 1 ELSE @]
       ELSE clients[c]]

\* The response of the try block
Created(doc) == [NoRes EXCEPT !.status = 201, !.note = ToJSON(doc)]

\* Mutant: a failing send throws into the catch block, which answers 500.
ResolvedEscalates(r) ==
  /\ Running
  /\ req[r].pc = "saved"
  /\ clients' = Broadcast(ToJSON(req[r].newNote))
  /\ req' = [req EXCEPT ![r].pc = "done",
                         ![r].res = IF \E c \in ConnIds : clients[c].tracked
                                          /\ clients[c].readyState = "OPEN" /\ clients[c].broken
                                      THEN [NoRes EXCEPT !.status = 500,
                                              !.error = "Internal server error"]
                                      ELSE Created(req[r].newNote),
                         ![r].newNote = NoNote]
  /\ UNCHANGED <<db, variant, now, store, getRes>>

\* After the await resolves: broadcast, then res.status(201).json(newNote).
Resolved(r) ==
  /\ Running
  /\ req[r].pc = "saved"
  /\ clients' = Broadcast(ToJSON(req[r].newNote))
  /\ req' = [req EXCEPT ![r].pc = "done", ![r].res = Created(req[r].newNote),
                         ![r].newNote = NoNote]
  /\ UNCHANGED <<db, variant, now, store, getRes>>

\* Mutant: the catch block does not look at error.code.
CaughtAlways500(code) == [NoRes EXCEPT !.status = 500, !.error = "Internal server error"]

\* The response of the catch block
Caught(code) ==
  IF code = DuplicateKey
    THEN [NoRes EXCEPT !.status = 400, !.error = "Note with this signature already exists"]
    ELSE [NoRes EXCEPT !.status = 500, !.error = "Internal server error"]

\* Mutant: the broadcast sits where the rejected path runs it too.
RejectedAndBroadcast(r) ==
  /\ Running
  /\ req[r].pc = "rejected"
  /\ clients' = [c \in ConnIds |->
                   IF clients[c].tracked /\ clients[c].readyState = "OPEN"
                     THEN [clients[c] EXCEPT !.sent = Append(@, ToJSON(req[r].newNote))]
                     ELSE clients[c]]
  /\ req' = [req EXCEPT ![r].pc = "done",
                         ![r].res = IF req[r].code = DuplicateKey
                                      THEN [NoRes EXCEPT !.status = 400,
                                              !.error = "Note with this signature already exists"]
                                      ELSE [NoRes EXCEPT !.status = 500,
                                              !.error = "Internal server error"],
                         ![r].newNote = NoNote, ![r].code = 0, ![r].before = {}]
  /\ UNCHANGED <<db, variant, now, store, getRes>>

\* Mutant: the catch block saves again after a failure that is no duplicate.
RejectedRetries(r) ==
  /\ Running
  /\ req[r].pc = "rejected"
  /\ req' = IF req[r].code = DuplicateKey
              THEN [req EXCEPT ![r].pc = "done", ![r].res = Caught(req[r].code),
                               ![r].newNote = NoNote, ![r].code = 0, ![r].before = {}]
              ELSE [req EXCEPT ![r].pc = "saving", ![r].code = 0]
  /\ UNCHANGED <<db, variant, now, store, clients, getRes>>

\* After the await rejects: the catch block.
Rejected(r) ==
  /\ Running
  /\ req[r].pc = "rejected"
  /\ req' = [req EXCEPT ![r].pc = "done", ![r].res = Caught(req[r].code),
                         ![r].newNote = NoNote, ![r].code = 0, ![r].before = {}]
  /\ UNCHANGED <<db, variant, now, store, clients, getRes>>

\* ------------------------------------------------- GET /api/sticky-notes
RECURSIVE InsertByTimestamp(_, _)
InsertByTimestamp(doc, sorted) ==
  IF sorted = <<>> THEN <<doc>>
  ELSE IF doc.timestamp > Head(sorted).timestamp THEN <<doc>> \o sorted
  ELSE <<Head(sorted)>> \o InsertByTimestamp(doc, Tail(sorted))

\* .sort({timestamp: -1}): newest first, equal timestamps in insertion order
RECURSIVE SortByTimestamp(_)
SortByTimestamp(docs) ==
  IF docs = <<>> THEN <<>>
  ELSE InsertByTimestamp(docs[Len(docs)], SortByTimestamp(SubSeq(docs, 1, Len(docs) - 1)))

\* Mutant: the query has no limit.
LimitUncapped(docs, n) == docs

\* .limit(n): the first n documents of the sorted result
Limit(docs, n) == IF Len(docs) <= n THEN docs ELSE SubSeq(docs, 1, n)

\* StickyNote.find().sort({timestamp: -1}).limit(1000)
Find == Limit(SortByTimestamp(store), ListLimit)

Get ==
  /\ db = "connected"
  /\ getRes' = [status |-> 200, notes |-> [i \in 1..Len(Find) |-> ToJSON(Find[i])]]
  /\ UNCHANGED <<db, variant, now, store, req, clients>>

GetUnavailable ==
  /\ Running
  /\ getRes' = [status |-> 500, notes |-> <<>>]
  /\ UNCHANGED <<db, variant, now, store, req, clients>>

\* ------------------------------------------------------- WebSocket
NextConnection(c) ==
  /\ clients[c].readyState = "NONE"
  /\ IF c = 1 THEN TRUE ELSE clients[c - 1].readyState # "NONE"

\* Mutant: the connection handler pushes the stored notes to the new socket.
ConnectPushesHistory(c) ==
  /\ Running
  /\ NextConnection(c)
  /\ clients' = [clients EXCEPT ![c].readyState = "OPEN", ![c].tracked = TRUE,
                                ![c].isAlive = TRUE,
                                ![c].sent = [i \in 1..Len(store) |-> ToJSON(store[i])]]
  /\ UNCHANGED <<db, variant, now, store, req, getRes>>

\* wss.on("connection"): ws has joined wss.clients; isAlive = true.
Connect(c) ==
  /\ Running
  /\ NextConnection(c)
  /\ clients' = [clients EXCEPT ![c].readyState = "OPEN", ![c].tracked = TRUE,
                                ![c].isAlive = TRUE]
  /\ UNCHANGED <<db, variant, now, store, req, getRes>>

\* The transport of an open connection fails.
Break(c) ==
  /\ Running
  /\ clients[c].readyState = "OPEN"
  /\ ~clients[c].broken
  /\ clients' = [clients EXCEPT ![c].broken = TRUE]
  /\ UNCHANGED <<db, variant, now, store, req, getRes>>

\* Mutant: the pong arrives but the handler does not set isAlive.
PongIgnored(c) ==
  /\ Running
  /\ clients[c].readyState = "OPEN"
  /\ ~clients[c].broken
  /\ clients' = [clients EXCEPT ![c].unanswered = 0]
  /\ UNCHANGED <<db, variant, now, store, req, getRes>>

\* ws.on('pong'): a pong frame arrives
Pong(c) ==
  /\ Running
  /\ clients[c].readyState = "OPEN"
  /\ ~clients[c].broken
  /\ clients' = [clients EXCEPT ![c].isAlive = TRUE, ![c].unanswered = 0]
  /\ UNCHANGED <<db, variant, now, store, req, getRes>>

\* ws.on('close'): part_000 clears isAlive, server.js only logs
OnClose(ws) ==
  IF variant = "part_000" THEN [ws EXCEPT !.isAlive = FALSE] ELSE ws

\* The socket closes (the peer left, the transport failed, or terminate()
\* has destroyed it): ws leaves wss.clients and 'close' is emitted.  Nothing
\* holds the object after that; only its isAlive field is kept here.
Close(c) ==
  /\ Running
  /\ clients[c].readyState \in {"OPEN", "CLOSING"}
  /\ clients' = [clients EXCEPT ![c] = [NoClient EXCEPT !.readyState = "CLOSED",
                                                        !.isAlive = OnClose(clients[c]).isAlive]]
  /\ UNCHANGED <<db, variant, now, store, req, getRes>>

\* Mutant: the sweep terminates only after a second unanswered ping.
SweepTwoStrikes(ws) ==
  IF ws.isAlive = FALSE /\ ws.unanswered >= 2
    THEN [ws EXCEPT !.readyState = "CLOSING"]
    ELSE [ws EXCEPT !.isAlive = FALSE, !.unanswered = @ + 1]

\* Mutant: terminate() is not followed by `return`, so the terminated
\* connection is pinged as well.
SweepNoReturn(ws) ==
  IF ws.isAlive = FALSE
    THEN [ws EXCEPT !.readyState = "CLOSING", !.unanswered = @ + 1]
    ELSE [ws EXCEPT !.isAlive = FALSE, !.unanswered = @ + 1]

\* One connection's turn in the heartbeat callback: terminate() when
\* isAlive is false, otherwise clear isAlive and ping.
Sweep(ws) ==
  IF ws.isAlive = FALSE
    THEN [ws EXCEPT !.readyState = "CLOSING"]
    ELSE [ws EXCEPT !.isAlive = FALSE, !.unanswered = @ + 1]

\* Mutant: the `return` after terminate() leaves the whole loop, so the
\* connections after a terminated one in wss.clients (insertion order) are
\* not visited.
HeartbeatStopsAtTerminate ==
  /\ Running
  /\ variant = "part_000"
  /\ \E c \in ConnIds : clients[c].tracked
  /\ clients' = [c \in ConnIds |->
                   IF clients[c].tracked
                      /\ \A d \in ConnIds : d < c /\ clients[d].tracked => clients[d].isAlive
                     THEN Sweep(clients[c]) ELSE clients[c]]
  /\ UNCHANGED <<db, variant, now, store, req, getRes>>

\* setInterval(() => wss.clients.forEach(...), 30000): part_000 only.
Heartbeat ==
  /\ Running
  /\ variant = "part_000"
  /\ \E c \in ConnIds : clients[c].tracked
  /\ clients' = [c \in ConnIds |-> IF clients[c].tracked THEN Sweep(clients[c]) ELSE clients[c]]
  /\ UNCHANGED <<db, variant, now, store, req, getRes>>

Next ==
  \/ MongoConnected
  \/ MongoConnectionError
  \/ \E r \in ReqIds, body \in Bodies : Post(r, body)
  \/ \E r \in ReqIds : SaveWrites(r)
  \/ \E r \in ReqIds : SaveDuplicate(r)
  \/ \E r \in ReqIds : SaveInvalid(r)
  \/ \E r \in ReqIds : SaveUnavailable(r)
  \/ \E r \in ReqIds : Resolved(r)
  \/ \E r \in ReqIds : Rejected(r)
  \/ Get
  \/ GetUnavailable
  \/ \E c \in ConnIds : Connect(c)
  \/ \E c \in ConnIds : Break(c)
  \/ \E c \in ConnIds : Pong(c)
  \/ \E c \in ConnIds : Close(c)
  \/ Heartbeat

Spec == Init /\ [][Next]_vars

\* =============================================================== claims
\* Vocabulary of the properties.
Stored == {store[i] : i \in 1..Len(store)}
StoredJSON == {ToJSON(store[i]) : i \in 1..Len(store)}
StoredWith(sig) == {i \in 1..Len(store) : store[i].signature = sig}
Sig(r) == CastString(req[r].body.signature)
Done(r) == req[r].pc = "done"
\* the request's save was written: its promise has resolved or is about to
Winner(r) == req[r].pc = "saved" \/ (Done(r) /\ req[r].res.status = 201)
Conflict(r) ==
  /\ Done(r)
  /\ req[r].res.status = 400
  /\ req[r].res.error = "Note with this signature already exists"
\* the store has answered the request's save
Answered(r) == Winner(r) \/ Conflict(r)
\* the body gets past the checks of the running version
PassesValidation(body) == PreCheck(body) = "next" /\ SchemaValid(NewStickyNote(body, 0))
IsOpen(ws) == ws.tracked /\ ws.readyState = "OPEN"
\* the step is the continuation of r's resolved save (broadcast and 201)
Resolves(r) == req[r].pc = "saved" /\ req'[r].pc = "done"
Occurrences(log, sig) == {i \in 1..Len(log) : log[i].signature = sig}

\* C1: among the submissions carrying one signature whose save the store has
\* answered, exactly one is the success (201) and every other one is the
\* duplicate conflict (400 'Note with this signature already exists'), in
\* every interleaving; the store holds exactly one note with that signature.
\* A submission that passed validation ends 201, that conflict, or 500.
C1_ExactlyOneSuccess ==
  \A r \in ReqIds :
    /\ Answered(r) =>
         /\ Cardinality({q \in ReqIds : Winner(q) /\ Sig(q) = Sig(r)}) = 1
         /\ \A q \in ReqIds : Answered(q) /\ Sig(q) = Sig(r) /\ ~Winner(q) => Conflict(q)
         /\ Cardinality(StoredWith(Sig(r))) = 1
    /\ Done(r) /\ PassesValidation(req[r].body) => Answered(r) \/ req[r].res.status = 500

\* C1 witness: two submissions of one signature were in flight together and
\* the one received second won; the first was answered with the conflict.
C1_Witness ==
  /\ Conflict(1) /\ Done(2) /\ Winner(2)
  /\ Sig(1) = Sig(2)
  /\ req[1].body.message # req[2].body.message

\* C2: every payload handed to a connection is the JSON of a note that is in
\* the store at that moment; a log grows only in the continuation of a save
\* that was written, and by that request's note; a step of a request whose
\* save was not written sends nothing.
C2_BroadcastOnlyStored ==
  [][/\ \A c \in ConnIds : \A i \in 1..Len(clients'[c].sent) :
          clients'[c].sent[i] \in StoredJSON'
     /\ \A c \in ConnIds :
          Len(clients'[c].sent) > Len(clients[c].sent) =>
            \E r \in ReqIds :
              /\ Resolves(r)
              /\ ToJSON(req[r].newNote) \in StoredJSON
              /\ clients'[c].sent = Append(clients[c].sent, ToJSON(req[r].newNote))
     /\ \A r \in ReqIds :
          req[r].pc \in {"idle", "saving", "rejected"} /\ req'[r] # req[r] =>
            \A c \in ConnIds : clients'[c].sent = clients[c].sent]_vars

\* C2 witness: an open connection holds the one broadcast of the submission
\* that was answered 201, and nothing of a valid submission whose save failed.
C2_Witness ==
  /\ \E c \in ConnIds : Len(clients[c].sent) = 1 /\ IsOpen(clients[c])
  /\ \E r \in ReqIds : Done(r) /\ req[r].res.status = 500 /\ PassesValidation(req[r].body)
  /\ \E r \in ReqIds : Done(r) /\ req[r].res.status = 201

\* C3: when the store finds the signature of a submission already taken, the
\* store stays exactly as it was (the existing note keeps its fields), nothing
\* is sent to any connection, and the submission is answered 400 'Note with
\* this signature already exists'; a save never writes over a taken signature.
C3_DuplicateRejected ==
  [][\A r \in ReqIds :
       /\ req[r].pc = "saving" /\ req'[r].pc = "saved" =>
            StoredWith(req[r].newNote.signature) = {}
       /\ req[r].pc = "saving" /\ req'[r].pc = "rejected" /\ req'[r].code = DuplicateKey =>
            /\ StoredWith(req[r].newNote.signature) # {}
            /\ store' = store /\ clients' = clients
       /\ req[r].pc = "rejected" /\ req[r].code = DuplicateKey /\ req'[r] # req[r] =>
            /\ Conflict(r)'
            /\ store' = store /\ clients' = clients]_vars

\* C3 witness: a resubmission with another message was answered with the
\* conflict while the stored note still carries the first message, and an
\* open connection holds the one broadcast.
C3_Witness ==
  /\ Len(store) = 1
  /\ Done(1) /\ req[1].res.status = 201
  /\ Conflict(2)
  /\ req[2].body.message # req[1].body.message
  /\ store[1].message = req[1].body.message
  /\ \E c \in ConnIds : IsOpen(clients[c]) /\ Len(clients[c].sent) = 1

\* C4: in the continuation of a written save, every connection that is in
\* wss.clients and open gets exactly one payload for the note, equal to the
\* JSON of the stored note (and to the 201 body), and holds no other payload
\* with that signature; no other connection gets anything.
C4_EachOpenClientOnce ==
  [][\A r \in ReqIds : Resolves(r) =>
       LET sig == req[r].newNote.signature.val
           stored == {ToJSON(store[i]) : i \in StoredWith(req[r].newNote.signature)}
       IN  /\ req'[r].res.note \in stored
           /\ \A c \in ConnIds :
                IF IsOpen(clients[c])
                  THEN /\ Len(clients'[c].sent) = Len(clients[c].sent) + 1
                       /\ clients'[c].sent[Len(clients'[c].sent)] \in stored
                       /\ Cardinality(Occurrences(clients'[c].sent, sig)) = 1
                  ELSE clients'[c].sent = clients[c].sent]_vars

\* C4 witness: both connections are open and each holds the one payload of
\* the one stored note, the body of the 201.
C4_Witness ==
  /\ Len(store) = 1
  /\ \E r \in ReqIds : Done(r) /\ req[r].res.status = 201 /\ req[r].res.note = ToJSON(store[1])
  /\ \A c \in ConnIds : IsOpen(clients[c]) /\ clients[c].sent = <<ToJSON(store[1])>>

\* C5: if A's save was written before B's handler began, every connection
\* that holds both broadcasts holds A's before B's.
C5_BroadcastOrder ==
  \A a, b \in ReqIds :
    /\ a # b
    /\ Done(a) /\ req[a].res.status = 201
    /\ Done(b) /\ req[b].res.status = 201
    /\ Sig(a) \in req[b].before
    => \A c \in ConnIds :
         \A i \in Occurrences(clients[c].sent, Sig(a).val) :
           \A j \in Occurrences(clients[c].sent, Sig(b).val) : i < j

\* C6: in the broadcast of a stored note, a connection whose send fails gets
\* its 'error' event and every other open member of wss.clients is still
\* handed the note.
C6_FailureIsolated ==
  [][\A r \in ReqIds : Resolves(r) =>
       \A f \in ConnIds : IsOpen(clients[f]) /\ clients[f].broken =>
         /\ clients'[f].errors = clients[f].errors + 1
         /\ \A c \in ConnIds \ {f} : IsOpen(clients[c]) =>
              clients'[c].sent = Append(clients[c].sent, ToJSON(req[r].newNote))]_vars

\* C6 witness: the send to the first connection of wss.clients failed and
\* the second, healthy connection holds the note.
C6_Witness ==
  /\ clients[1].errors = 1
  /\ IsOpen(clients[2]) /\ ~clients[2].broken
  /\ Len(clients[2].sent) = 1
  /\ clients[2].sent[1] \in StoredJSON

\* C7: the step after a written save always answers that request 201 with
\* the stored note and leaves the store alone, whatever happened to the sends.
C7_PersistedAnswers201 ==
  [][\A r \in ReqIds : req[r].pc = "saved" /\ req'[r] # req[r] =>
       /\ Done(r)'
       /\ req'[r].res.status = 201
       /\ req'[r].res.note \in {ToJSON(store[i]) : i \in StoredWith(req[r].newNote.signature)}
       /\ store' = store]_vars

\* C7 witness: a send of the broadcast failed and the submitter has its 201.
C7_Witness ==
  /\ \E c \in ConnIds : clients[c].errors = 1 /\ Len(clients[c].sent) = 1
  /\ \E r \in ReqIds : Done(r) /\ req[r].res.status = 201
                       /\ req[r].res.note \in StoredJSON
  /\ \A r \in ReqIds : Done(r) => req[r].res.status = 201

InvalidBody(body) ==
  \/ \E f \in {body.message, body.signature, body.walletAddress} :
       f.type # "string" \/ f.length = 0
  \/ body.message.length > MESSAGE_MAX_LENGTH
  \/ body.color.type # "undefined" /\ body.color \notin ALLOWED_COLORS

\* C9: no step of a submission that validation must reject changes the store
\* or hands anything to a connection, and its response is 400.
C9_InvalidAnswered400 ==
  [][\A r \in ReqIds : req'[r] # req[r] /\ InvalidBody(req'[r].body) =>
       /\ store' = store
       /\ \A c \in ConnIds : clients'[c].sent = clients[c].sent
       /\ Done(r)' => req'[r].res.status = 400]_vars

\* C10: the store only grows at its end: no step removes a stored note or
\* changes a field of one.
C10_AppendOnly ==
  [][/\ Len(store') >= Len(store)
     /\ \A i \in 1..Len(store) : store'[i] = store[i]]_vars

\* C10 witness: a note stored at time 0 is unchanged after a later
\* resubmission of its signature was refused, a GET was served, a connection
\* was terminated by the sweep and another got the broadcast.
C10_Witness ==
  /\ Len(store) = 1 /\ store[1].timestamp = 0 /\ now = 1
  /\ Conflict(2)
  /\ getRes.status = 200 /\ getRes.notes = <<ToJSON(store[1])>>
  /\ \E c \in ConnIds : clients[c].readyState = "CLOSING"
  /\ \E c \in ConnIds : clients[c].sent = <<ToJSON(store[1])>>

\* each note's timestamp is greater than or equal to that of the note after it
NewestFirst(notes) ==
  \A i \in 1..(Len(notes) - 1) : notes[i].timestamp >= notes[i + 1].timestamp
\* The limits the cap is examined at: those a store of this size can exceed,
\* and the one of the route.
Limits == (0..NumReq) \cup {ListLimit}

\* C11: a GET that the store answers responds 200 with at most 1000 notes,
\* each of them a stored note, sorted newest first by timestamp, and with the
\* empty array when the store is empty; find().sort().limit(n) never yields
\* more than n notes and yields them newest first, for a limit the store
\* exceeds as for one it does not.
C11_ListCappedNewestFirst ==
  [][Get =>
       /\ getRes'.status = 200
       /\ Len(getRes'.notes) <= ListLimit
       /\ NewestFirst(getRes'.notes)
       /\ \A i \in 1..Len(getRes'.notes) : getRes'.notes[i] \in StoredJSON
       /\ store = <<>> => getRes'.notes = <<>>
       /\ \A n \in Limits :
            LET page == Limit(SortByTimestamp(store), n)
            IN  /\ Len(page) <= n
                /\ Len(page) <= Len(store)
                /\ NewestFirst(page)
                /\ \A i \in 1..Len(page) : page[i] \in Stored]_vars

\* C11 witness: the GET returned two notes, the newer first, from a store
\* that holds them in the other order (so the sort acted), and a limit of one
\* is exceeded by this store.
C11_Witness ==
  /\ getRes.status = 200 /\ Len(getRes.notes) = 2
  /\ Len(store) = 2 /\ store[1].timestamp < store[2].timestamp
  /\ getRes.notes = <<ToJSON(store[2]), ToJSON(store[1])>>
  /\ Len(Limit(SortByTimestamp(store), 1)) = 1

\* C12: for every submission whose save was written, the stored note, the
\* 201 body and every payload broadcast for it carry 'yellow' when the body
\* had no color, and exactly the given color otherwise.
C12_ColorDefault ==
  \A r \in ReqIds : Winner(r) =>
    LET given == req[r].body.color
        want == IF given.type = "undefined" THEN "yellow" ELSE given.val
    IN  /\ \A i \in StoredWith(Sig(r)) : store[i].color.val = want
        /\ Done(r) => req[r].res.note.color = want
        /\ \A c \in ConnIds : \A i \in Occurrences(clients[c].sent, Sig(r).val) :
             clients[c].sent[i].color = want

\* C12 witness: a submission without color was stored, answered 201 and
\* broadcast as 'yellow', and one that gave 'pink' was stored as 'pink'.
C12_Witness ==
  /\ \E r \in ReqIds :
       /\ Done(r) /\ req[r].res.status = 201
       /\ req[r].body.color = Undefined
       /\ req[r].res.note.color = "yellow"
       /\ \E i \in StoredWith(Sig(r)) : store[i].color = Str("yellow")
       /\ \E c \in ConnIds : \E i \in 1..Len(clients[c].sent) :
            clients[c].sent[i] = req[r].res.note
  /\ \E q \in ReqIds :
       /\ Winner(q) /\ req[q].body.color = Str("pink")
       /\ \E i \in StoredWith(Sig(q)) : store[i].color = Str("pink")

\* C13: a save that fails for another reason than a taken signature leaves
\* the store and every connection as they were; the step after it answers
\* the submission 500, again without touching the store or sending anything,
\* and ends the handler: the save is not tried again.
C13_StorageFailure500 ==
  [][\A r \in ReqIds :
       /\ req[r].pc = "saving" /\ req'[r].pc = "rejected" /\ req'[r].code # DuplicateKey =>
            store' = store /\ clients' = clients
       /\ req[r].pc = "rejected" /\ req[r].code # DuplicateKey /\ req'[r] # req[r] =>
            /\ Done(r)'
            /\ req'[r].res.status = 500
            /\ store' = store
            /\ \A c \in ConnIds : clients'[c].sent = clients[c].sent
       /\ Done(r) => req'[r] = req[r]]_vars

\* C13 witness: the store was connected and failed on a valid submission:
\* it was answered 500, the store is empty and the open connection holds
\* nothing.
C13_Witness ==
  /\ db = "connected"
  /\ \E r \in ReqIds : Done(r) /\ req[r].res.status = 500 /\ PassesValidation(req[r].body)
  /\ store = <<>>
  /\ \E c \in ConnIds : IsOpen(clients[c]) /\ clients[c].sent = <<>>

\* C14: no connection is handed two payloads of one stored note: the
\* payloads of a connection carry pairwise different signatures, whenever
\* the connection registered.
C14_NoDuplicateDelivery ==
  \A c \in ConnIds :
    \A i, j \in 1..Len(clients[c].sent) :
      i # j => clients[c].sent[i].signature # clients[c].sent[j].signature

\* C14 witness: the first connection holds the broadcasts of both stored
\* notes; the second registered later and holds one payload, not a history.
C14_Witness ==
  /\ Len(store) = 2
  /\ IsOpen(clients[1]) /\ Len(clients[1].sent) = 2
  /\ IsOpen(clients[2]) /\ Len(clients[2].sent) = 1
  /\ clients[2].sent[1] = clients[1].sent[2]

\* C15: in a heartbeat tick every connection in wss.clients is either
\* terminated without a ping (isAlive was false) or has isAlive cleared and is
\* sent one ping (isAlive was true) and stays as it was otherwise; no other
\* connection is touched.  So a connection still owing the pong of the last
\* tick's ping is terminated by this one.
C15_TickTerminatesOrPings ==
  [][Heartbeat =>
       \A c \in ConnIds :
         /\ ~clients[c].tracked => clients'[c] = clients[c]
         /\ clients[c].tracked /\ clients[c].isAlive = FALSE =>
              /\ clients'[c].readyState = "CLOSING"
              /\ clients'[c].unanswered = clients[c].unanswered
         /\ clients[c].tracked /\ clients[c].isAlive = TRUE =>
              /\ clients'[c].isAlive = FALSE
              /\ clients'[c].unanswered = clients[c].unanswered + 1
              /\ clients'[c].readyState = clients[c].readyState
         /\ clients[c].tracked /\ clients[c].unanswered = 1 =>
              clients'[c].readyState = "CLOSING"]_vars

\* C15 witness: after a tick the first connection, which owed a pong, is
\* terminated with its one ping unanswered, and the second, which did not, has
\* isAlive cleared and a ping under way.
C15_Witness ==
  /\ clients[1].tracked /\ clients[1].readyState = "CLOSING"
  /\ clients[1].unanswered = 1 /\ ~clients[1].isAlive
  /\ IsOpen(clients[2]) /\ ~clients[2].isAlive /\ clients[2].unanswered = 1
  /\ clients[2].sent = <<>>

\* C16: a tick leaves open every connection that owes no pong (it answered
\* the last ping, or it registered since and was never pinged); the sweep
\* moves an open connection to termination only if a ping of an earlier tick
\* is still unanswered; a connection registers owing nothing, with isAlive set.
C16_ResponsiveNeverEvicted ==
  [][/\ Heartbeat =>
          \A c \in ConnIds :
            /\ IsOpen(clients[c]) /\ clients[c].unanswered = 0 =>
                 clients'[c].readyState = "OPEN" /\ clients'[c].tracked
            /\ IsOpen(clients[c]) /\ clients'[c].readyState # "OPEN" =>
                 clients[c].unanswered = 1 /\ clients[c].isAlive = FALSE
     /\ \A c \in ConnIds :
          clients[c].readyState = "NONE" /\ clients'[c].readyState # "NONE" =>
            /\ IsOpen(clients'[c])
            /\ clients'[c].isAlive = TRUE /\ clients'[c].unanswered = 0]_vars

\* C16 witness: the second connection was pinged by one tick and terminated
\* by a later one; the first, registered before it, went through both ticks,
\* answered, and is open owing nothing.
C16_Witness ==
  /\ clients[2].tracked /\ clients[2].readyState = "CLOSING"
  /\ IsOpen(clients[1]) /\ clients[1].isAlive /\ clients[1].unanswered = 0
  /\ ~clients[1].broken

\* the n notes inserted last (all of them when the store holds fewer)
MostRecentlyInserted(n) ==
  {store[i] : i \in (IF n < Len(store) THEN Len(store) - n + 1 ELSE 1)..Len(store)}

\* C17: whatever the limit, the notes find().sort().limit(n) yields are the
\* n most recently inserted ones (every inserted note when the store holds no
\* more than n), also when notes were inserted in another order than they
\* were created in.  Stated for stores whose timestamps differ, so that the
\* order among equal timestamps plays no part.
C17_ListMostRecentlyInserted ==
  (\A i, j \in 1..Len(store) : i # j => store[i].timestamp # store[j].timestamp) =>
    \A n \in Limits :
      LET page == Limit(SortByTimestamp(store), n)
      IN  {page[i] : i \in 1..Len(page)} = MostRecentlyInserted(n)

\* the connection is terminated, closing or closed
Gone(ws) == ws.readyState \in {"CLOSING", "CLOSED"}

\* C18: beside a connection d that is gone, that this tick terminates or
\* that this step closes, every other connection c is treated as if d were
\* not there: a broadcast hands c, if open, the note exactly once; a tick
\* pings c exactly once if its isAlive is set and terminates it if not; the
\* close of d changes nothing of c.
C18_ChurnDoesNotDisturb ==
  [][\A c, d \in ConnIds : c # d =>
       /\ \A r \in ReqIds : Resolves(r) /\ Gone(clients[d]) /\ IsOpen(clients[c]) =>
            clients'[c].sent = Append(clients[c].sent, ToJSON(req[r].newNote))
       /\ Heartbeat /\ clients[d].tracked /\ ~clients[d].isAlive /\ clients[c].tracked =>
            IF clients[c].isAlive
              THEN /\ clients'[c].unanswered = clients[c].unanswered + 1
                   /\ ~clients'[c].isAlive
                   /\ clients'[c].readyState = clients[c].readyState
              ELSE clients'[c].readyState = "CLOSING"
       /\ ~Gone(clients[d]) /\ clients'[d].readyState = "CLOSED" =>
            clients'[c] = clients[c]
       /\ Gone(clients[d]) => Gone(clients'[d])]_vars

\* C18 witness: a tick terminated the first connection and pinged the
\* second, which registered later, and the second holds a broadcast that
\* passed the first by.
C18_Witness ==
  /\ clients[1].tracked /\ clients[1].readyState = "CLOSING" /\ clients[1].sent = <<>>
  /\ IsOpen(clients[2]) /\ ~clients[2].isAlive /\ clients[2].unanswered = 1
  /\ Len(clients[2].sent) = 1
  /\ \E r \in ReqIds : Done(r) /\ req[r].res.status = 201

\* C19: in every reachable state every stored note has message, signature
\* and walletAddress as non-empty strings, a message of at most 500
\* characters, and a color of the palette.
C19_StoredNotesValid ==
  \A i \in 1..Len(store) :
    /\ \A f \in {store[i].message, store[i].signature, store[i].walletAddress} :
         f.type = "string" /\ f.length > 0
    /\ store[i].message.length <= 500
    /\ store[i].color.type = "string"
    /\ store[i].color.val \in {"pink", "purple", "blue", "green", "yellow"}

\* C19 witness: without the middleware (server.js) a numeric message was
\* stored as its text, and a note with a color of the palette was stored
\* under the other signature.
C19_Witness ==
  /\ variant = "server.js"
  /\ Len(store) = 2
  /\ \E r \in ReqIds :
       /\ Winner(r) /\ req[r].body.message.type = "number"
       /\ \E i \in StoredWith(Sig(r)) : store[i].message = Str(req[r].body.message.val)
  /\ \E i \in 1..Len(store) : store[i].color = Str("pink")

\* C20: once the storage connection has failed the process has exited and
\* nothing happens any more; and while the storage connection is not
\* established no POST is received, handled or answered and no GET is
\* answered.
C20_NoServiceWithoutStore ==
  [][/\ db = "failed" => vars' = vars
     /\ db # "connected" => req' = req /\ getRes' = getRes]_vars

====
